---- MODULE Spec2Model ----
(***************************************************************************)
(* Model of the delta-sync upload job in src/upload_to_vector_store.py:    *)
(* main() loads the two JSON state files, resolves the vector store,       *)
(* walks the sorted markdown files (skip / update / new), uploads, records *)
(* the result in memory and saves both files at the end.  The remote       *)
(* service, the file system and process crashes are the environment.       *)
(***************************************************************************)
EXTENDS Integers, Sequences, FiniteSets, TLC

VARIABLES
    historyFile,          \* upload_history.json on disk
    mappingFile,          \* vector_store_mapping.json on disk
    collections,          \* remote: ids of the vector stores that exist
    entries,              \* remote: vector store files, newest first
    nextFileId,           \* remote: id the next created file gets
    nextVsId,             \* remote: id the next created vector store gets
    run,                  \* number of invocations of main() so far
    cfg,                  \* module globals read from the environment
    files,                \* articles/*.md of this run: name -> content
    pc,                   \* position of main()
    err,                  \* the exception that ended main(), "" if none
    idx,                  \* position of the for loop in markdown_files
    upload_history,       \* main(): in-memory dict
    vector_store_mapping, \* main(): in-memory dict
    vector_store_id,      \* main(): resolved vector store id
    uploaded, updated, skipped,  \* main(): counters
    logNew, logUpdated, logSkipped, logFailed, \* names in the NEW / UPDATE / SKIP / "Failed processing" log lines of this run
    calls,                \* remote calls issued by this run, in order
    atStart,              \* the two files as they were when this run started
    completed,            \* <<name, hash>> of every upload batch that ever returned completed
    prev,                 \* what this run repeats or lost of the previous run
    faults,               \* failures the environment has injected so far
    io,                   \* loads and saves of the two files by this run, in order
    exit_code,            \* what the job's main() returned for this run, <<>> until it has
    orderly,              \* so far no run has crashed or raised and no delete call has failed
    articles,             \* help center: id -> title of the articles that exist
    nextArticleId,        \* help center: id the next created article gets
    snapshot,             \* articles/ after the last scrape: file stem -> article id
    previous              \* articles/ after the scrape before that one

engineVars == <<historyFile, mappingFile, collections, entries, nextFileId, nextVsId,
                run, cfg, files, pc, err, idx, upload_history, vector_store_mapping,
                vector_store_id, uploaded, updated, skipped, logNew, logUpdated,
                logSkipped, logFailed, calls, atStart, completed, prev, faults, io,
                exit_code, orderly>>

scrapeVars == <<articles, nextArticleId, snapshot, previous>>

vars == <<engineVars, scrapeVars>>

----------------------------------------------------------------------------
(* Bounds *)

MaxRuns == 2
MaxFaults == 1
MaxArticles == 3

Names == {"a.md", "b.md"}
NameOrder == <<"a.md", "b.md">>
\* two versions of an article's text: main() only compares digests for equality
Contents == {1, 2}

----------------------------------------------------------------------------
(* Values *)

None == <<"none", 0, "">>
NoVs == <<"novs", 0>>
EnvVs == <<"vs", 0>>
NoName == ""
EmptyMap == [x \in {} |-> 0]

VsId(k) == <<"vs", k>>
FileId(k) == <<"file", k, "">>

Stem(name) == IF name = "a.md" THEN "a" ELSE "b"
UnknownId(name) == <<"unknown", 0, Stem(name)>>

Put(d, k, v) == [x \in (DOMAIN d) \cup {k} |-> IF x = k THEN v ELSE d[x]]
\* dict.get(k) of a name -> hash dict
Get(d, k) == IF k \in DOMAIN d THEN d[k] ELSE None

calculate_file_hash(content) == <<"sha256", content, "">>

AbsentFile == [st |-> "absent", data |-> EmptyMap]
TornFile == [st |-> "torn", data |-> EmptyMap]
OkFile(d) == [st |-> "ok", data |-> d]

\* sorted(ARTICLES_DIR.glob("*.md"))
get_markdown_files(fs) == SelectSeq(NameOrder, LAMBDA n : n \in DOMAIN fs)

Snapshots == UNION {[S -> Contents] : S \in SUBSET Names}
NoKeyConfig == [apiKey |-> FALSE, envVs |-> NoVs, environment |-> "development"]
Configs == [apiKey : {TRUE}, envVs : {NoVs, EnvVs}, environment : {"production", "development"}]
              \cup {NoKeyConfig}

\* What an environment step may return: a failure only while the budget lasts
Outcomes(good, bad) == good \cup (IF faults < MaxFaults THEN bad ELSE {})
Charge(r, bad) == faults + (IF r \in bad THEN 1 ELSE 0)

\* load_json / save_json of file f after `at` artifacts have been processed
FileEvent(op, f, at) == [op |-> op, file |-> f, at |-> at]

Call(op, vs, name, fid, res) == [op |-> op, vs |-> vs, name |-> name, fid |-> fid, res |-> res]

----------------------------------------------------------------------------

Init ==
    /\ historyFile = AbsentFile
    /\ mappingFile = AbsentFile
    /\ collections = {EnvVs}
    /\ entries = <<>>
    /\ nextFileId = 1
    /\ nextVsId = 1
    /\ run = 0
    /\ cfg = [apiKey |-> TRUE, envVs |-> NoVs, environment |-> "development"]
    /\ files = EmptyMap
    /\ pc = "idle"
    /\ err = ""
    /\ idx = 1
    /\ upload_history = EmptyMap
    /\ vector_store_mapping = EmptyMap
    /\ vector_store_id = NoVs
    /\ uploaded = 0 /\ updated = 0 /\ skipped = 0
    /\ logNew = {} /\ logUpdated = {} /\ logSkipped = {} /\ logFailed = {}
    /\ calls = <<>>
    /\ atStart = [h |-> AbsentFile, m |-> AbsentFile]
    /\ completed = {}
    /\ prev = [repeat |-> FALSE, lost |-> {}, failed |-> {}]
    /\ faults = 0
    /\ io = <<>>
    /\ exit_code = <<>>
    /\ orderly = TRUE
    /\ articles = EmptyMap
    /\ nextArticleId = 1
    /\ snapshot = EmptyMap
    /\ previous = EmptyMap

----------------------------------------------------------------------------
(* The remote service *)

\* client.vector_stores.files.list(vector_store_id).data, newest first
ListEntries(vs) == SelectSeq(entries, LAMBDA e : e.vs = vs)

HasEntry(vs, fid) == \E i \in 1..Len(entries) : entries[i].vs = vs /\ entries[i].id = fid

\* client.vector_stores.files.delete(vs, fid) when it succeeds
RemoveEntry(vs, fid) == SelectSeq(entries, LAMBDA e : ~(e.vs = vs /\ e.id = fid))

----------------------------------------------------------------------------
(* Pure pieces of main() *)

\* Classes without the continue of line 181: a SKIP falls through to line 183
ClassesNoContinue(previous_hash, current_hash) ==
    (IF previous_hash = current_hash THEN {"skipped"} ELSE {})
        \cup (IF previous_hash # None THEN {"updated"} ELSE {"new"})

\* Classes without the comparison of line 178
ClassesNoSkip(previous_hash, current_hash) ==
    IF previous_hash # None THEN {"updated"} ELSE {"new"}

\* Classes without the else branch of lines 187-189
ClassesNoNew(previous_hash, current_hash) ==
    IF previous_hash = current_hash THEN {"skipped"} ELSE {"updated"}

\* lines 178-189: the log lines (SKIP / UPDATE / NEW) an artifact gets
Classes(previous_hash, current_hash) ==
    IF previous_hash = current_hash THEN {"skipped"}
    ELSE IF previous_hash # None THEN {"updated"}
    ELSE {"new"}

\* AfterClassify without the call of line 185
AfterClassifyNoDelete(cls) ==
    IF cls \cap {"updated", "new"} # {} THEN "ingest" ELSE "next"

\* lines 183-196: where an artifact of these classes goes after classification
AfterClassify(cls) ==
    IF "updated" \in cls THEN "delete"
    ELSE IF "new" \in cls THEN "ingest"
    ELSE "next"

\* BatchSucceeded without the status check of line 198
BatchSucceededAlways(status) == TRUE

\* lines 198-199: the batch status that lets the artifact be recorded
BatchSucceeded(status) == status = "completed"

\* MustFailFast without the check of line 105
MustFailFastNever(environment) == FALSE

\* lines 105-108: the environment that forbids creating a vector store
MustFailFast(environment) == environment = "production"

\* LoopPc with the saves of lines 225-226 inside the for loop
LoopPcSaveEach(i, n) == "open_h"

\* for loop, line 173: after artifact i of n comes the next one or the saves
LoopPc(i, n) == IF i > n THEN "open_h" ELSE "loop"

\* AfterFailure with the exception propagating instead of being caught
AfterFailureAbort(i, n) == "fatal"

\* lines 221-223: except ... continue
AfterFailure(i, n) == LoopPc(i + 1, n)

\* AfterDelete without the try/except of lines 131-135
AfterDeleteRaise(r) == IF r = "ok" THEN "ingest" ELSE "fatal"

\* lines 131-135 and 185-193: a delete that failed is only logged
AfterDelete(r) == "ingest"

markdown_files == get_markdown_files(files)
file_name == markdown_files[idx]
current_hash == calculate_file_hash(files[file_name])

InRun == {"resolve", "loop", "delete", "ingest", "list", "open_h", "write_h", "open_m", "write_m"}

----------------------------------------------------------------------------
(* Actions *)

\* Names whose upload completed in the run that just crashed and whose
\* fingerprint never reached the disk
LostByCrash ==
    IF pc # "crashed" THEN {}
    ELSE {n \in DOMAIN files :
            /\ \E i \in 1..Len(calls) :
                  calls[i].op = "ingest" /\ calls[i].name = n /\ calls[i].res = "completed"
            /\ n \notin logFailed
            /\ Get(historyFile.data, n) # calculate_file_hash(files[n])}

\* Names whose upload failed in the run that just ended and that the next
\* snapshot fs holds with the same content
FailedAndSame(fs) ==
    {n \in DOMAIN files \cap DOMAIN fs :
        /\ fs[n] = files[n]
        /\ \E i \in 1..Len(calls) :
              calls[i].op = "ingest" /\ calls[i].name = n /\ calls[i].res # "completed"}

\* ResolveFileId taking the oldest entry of the listing
ResolveFileIdOldest(data, name) ==
    IF data # <<>> THEN data[Len(data)].id ELSE UnknownId(name)

\* lines 203-212: file_id is vs_files.data[0].id, or unknown_<stem> when the
\* listing came back empty
ResolveFileId(data, name) ==
    IF data # <<>> THEN Head(data).id ELSE UnknownId(name)

\* NewMapping without the assignment of lines 215-219
NewMappingSkipped(mapping, name, file_id, vs, at) == mapping

\* NewMapping that keeps the record a name already has
NewMappingKeepOld(mapping, name, file_id, vs, at) ==
    IF name \in DOMAIN mapping THEN mapping
    ELSE Put(mapping, name, [file_id |-> file_id, uploaded_at |-> at, vector_store_id |-> vs])

\* lines 215-219: vector_store_mapping[file_name] = {...} replaces the record
NewMapping(mapping, name, file_id, vs, at) ==
    Put(mapping, name, [file_id |-> file_id, uploaded_at |-> at, vector_store_id |-> vs])

\* ExitCode with the except branch of src/main.py returning 0 as well
ExitCodeAlwaysZero(raised) == 0

\* src/main.py, lines 400-411 and 434-496: return 0 after uploader.main() has
\* returned, return 1 when a required variable is missing or an exception
\* reached the except branch
ExitCode(raised) == IF raised THEN 1 ELSE 0

\* src/main.py, lines 446, 488 and 490-496: the exit code at position p of the run
Returned(p) ==
    IF p = "done" THEN <<ExitCode(FALSE)>>
    ELSE IF p = "fatal" THEN <<ExitCode(TRUE)>>
    ELSE <<>>

\* AfterListing without the early return of lines 155-165
AfterListingNoReturn(fs) == "resolve"

\* lines 152-167: an empty file list returns the all-zero outcome at once
AfterListing(fs) == IF DOMAIN fs = {} THEN "done" ELSE "resolve"

\* main(), lines 141-165: client, load_json twice, list the files
StartRun(c, fs) ==
    /\ pc \in {"idle", "done", "fatal", "crashed"}
    /\ run < MaxRuns
    /\ run' = run + 1
    /\ cfg' = c
    /\ files' = IF c.apiKey THEN fs ELSE EmptyMap
    /\ prev' = [repeat |-> (c.apiKey /\ pc = "done" /\ logFailed = {} /\ fs = files),
                lost |-> IF c.apiKey THEN LostByCrash \cap DOMAIN fs ELSE {},
                failed |-> IF c.apiKey THEN FailedAndSame(fs) ELSE {}]
    /\ atStart' = [h |-> historyFile, m |-> mappingFile]
    /\ idx' = 1
    /\ vector_store_id' = NoVs
    /\ uploaded' = 0 /\ updated' = 0 /\ skipped' = 0
    /\ logNew' = {} /\ logUpdated' = {} /\ logSkipped' = {} /\ logFailed' = {}
    /\ calls' = <<>>
    /\ IF ~c.apiKey
         THEN /\ pc' = "fatal" /\ err' = "no_api_key"
              /\ upload_history' = EmptyMap /\ vector_store_mapping' = EmptyMap
              /\ io' = <<>>
       ELSE IF historyFile.st = "torn" \/ mappingFile.st = "torn"
         THEN /\ pc' = "fatal" /\ err' = "load_json"
              /\ upload_history' = EmptyMap /\ vector_store_mapping' = EmptyMap
              /\ io' = IF historyFile.st = "torn" THEN <<FileEvent("load", "h", 0)>>
                        ELSE <<FileEvent("load", "h", 0), FileEvent("load", "m", 0)>>
       ELSE /\ upload_history' = historyFile.data
            /\ vector_store_mapping' = mappingFile.data
            /\ err' = ""
            /\ io' = <<FileEvent("load", "h", 0), FileEvent("load", "m", 0)>>
            /\ pc' = AfterListing(fs)
    /\ UNCHANGED <<historyFile, mappingFile, collections, entries, nextFileId,
                   nextVsId, completed, faults>>
    /\ exit_code' = Returned(pc')
    /\ UNCHANGED scrapeVars
    /\ orderly' = (orderly /\ pc' # "fatal")

\* get_or_create_vector_store, lines 95-113, and lines 167-171
GetOrCreateVectorStore ==
    /\ pc = "resolve"
    /\ \E r \in (IF cfg.envVs = NoVs THEN {"none"}
                 ELSE IF cfg.envVs \in collections THEN Outcomes({"ok"}, {"error"})
                 ELSE {"missing"}) :
       LET asked == cfg.envVs # NoVs
           c1 == IF asked THEN Append(calls, Call("retrieve", cfg.envVs, NoName, None, r))
                 ELSE calls
       IN  IF asked /\ r = "ok"
             THEN /\ vector_store_id' = cfg.envVs
                  /\ calls' = c1
                  /\ pc' = "loop" /\ err' = ""
                  /\ UNCHANGED <<collections, nextVsId, faults>>
           ELSE IF MustFailFast(cfg.environment)
             THEN /\ pc' = "fatal" /\ err' = "strict"
                  /\ calls' = c1
                  /\ faults' = Charge(r, {"error"})
                  /\ UNCHANGED <<vector_store_id, collections, nextVsId>>
           ELSE \E cr \in {"ok"} \cup (IF Charge(r, {"error"}) < MaxFaults THEN {"failed"} ELSE {}) :
                  IF cr = "ok"
                    THEN /\ collections' = collections \cup {VsId(nextVsId)}
                         /\ nextVsId' = nextVsId + 1
                         /\ vector_store_id' = VsId(nextVsId)
                         /\ calls' = Append(c1, Call("create", VsId(nextVsId), NoName, None, "ok"))
                         /\ faults' = Charge(r, {"error"})
                         /\ pc' = "loop" /\ err' = ""
                  ELSE /\ calls' = Append(c1, Call("create", NoVs, NoName, None, "error"))
                       /\ faults' = Charge(r, {"error"}) + 1
                       /\ pc' = "fatal" /\ err' = "create_failed"
                       /\ UNCHANGED <<vector_store_id, collections, nextVsId>>
    /\ UNCHANGED <<historyFile, mappingFile, entries, nextFileId, run, cfg, files, idx,
                   upload_history, vector_store_mapping, uploaded, updated, skipped,
                   logNew, logUpdated, logSkipped, logFailed, atStart, completed, prev, io>>
    /\ exit_code' = Returned(pc')
    /\ UNCHANGED scrapeVars
    /\ orderly' = (orderly /\ pc' # "fatal")

\* for loop, lines 173-189: hash, look up, SKIP / UPDATE / NEW
ClassifyArtifact ==
    /\ pc = "loop"
    /\ idx <= Len(markdown_files)
    /\ \E readable \in Outcomes({TRUE}, {FALSE}) :
         IF ~readable
           THEN \* calculate_file_hash raises outside the try block of line 191
                /\ pc' = "fatal" /\ err' = "hash_io"
                /\ faults' = faults + 1
                /\ UNCHANGED <<idx, uploaded, updated, skipped, logNew, logUpdated, logSkipped>>
         ELSE LET previous_hash == Get(upload_history, file_name)
                  cls == Classes(previous_hash, current_hash)
                  goto == AfterClassify(cls)
              IN  /\ skipped' = skipped + (IF "skipped" \in cls THEN 1 ELSE 0)
                  /\ updated' = updated + (IF "updated" \in cls THEN 1 ELSE 0)
                  /\ uploaded' = uploaded + (IF "new" \in cls THEN 1 ELSE 0)
                  /\ logSkipped' = logSkipped \cup (IF "skipped" \in cls THEN {file_name} ELSE {})
                  /\ logUpdated' = logUpdated \cup (IF "updated" \in cls THEN {file_name} ELSE {})
                  /\ logNew' = logNew \cup (IF "new" \in cls THEN {file_name} ELSE {})
                  /\ IF goto = "next"
                       THEN /\ idx' = idx + 1
                            /\ pc' = LoopPc(idx + 1, Len(markdown_files))
                     ELSE /\ idx' = idx
                          /\ pc' = goto
                  /\ err' = ""
                  /\ faults' = faults
    /\ UNCHANGED <<historyFile, mappingFile, collections, entries, nextFileId, nextVsId,
                   run, cfg, files, upload_history, vector_store_mapping, vector_store_id,
                   logFailed, calls, atStart, completed, prev, io>>
    /\ exit_code' = Returned(pc')
    /\ UNCHANGED scrapeVars
    /\ orderly' = (orderly /\ pc' # "fatal")

\* delete_old_file_from_vector_store, lines 116-135, called at line 185
DeleteOldFile ==
    /\ pc = "delete"
    /\ IF file_name \notin DOMAIN vector_store_mapping
         THEN /\ pc' = "ingest"
              /\ UNCHANGED <<entries, calls, faults, orderly>>
       ELSE LET old_file_id == vector_store_mapping[file_name].file_id
            IN  IF old_file_id = None
                  THEN /\ pc' = "ingest"
                       /\ UNCHANGED <<entries, calls, faults, orderly>>
                ELSE \E r \in (IF HasEntry(vector_store_id, old_file_id)
                                 THEN Outcomes({"ok"}, {"error"}) ELSE {"not_found"}) :
                       /\ pc' = AfterDelete(r)
                       /\ faults' = Charge(r, {"error"})
                       /\ orderly' = (orderly /\ r # "error")
                       /\ entries' = IF r = "ok"
                                       THEN RemoveEntry(vector_store_id, old_file_id)
                                     ELSE entries
                       /\ calls' = Append(calls, Call("delete", vector_store_id, file_name,
                                                      old_file_id, r))
    /\ UNCHANGED <<historyFile, mappingFile, collections, nextFileId, nextVsId, run, cfg,
                   files, err, idx, upload_history, vector_store_mapping, vector_store_id,
                   uploaded, updated, skipped, logNew, logUpdated, logSkipped, logFailed,
                   atStart, completed, prev, io>>
    /\ exit_code' = Returned(pc')
    /\ UNCHANGED scrapeVars

\* lines 191-199 and 221-223: upload_and_poll and the status check
UploadAndPoll ==
    /\ pc = "ingest"
    /\ \E status \in Outcomes({"completed"}, {"failed", "raised"}) :
         /\ faults' = Charge(status, {"failed", "raised"})
         /\ IF status = "completed"
              THEN /\ entries' = <<[id |-> FileId(nextFileId), vs |-> vector_store_id,
                                    name |-> file_name, hash |-> current_hash]>> \o entries
                   /\ nextFileId' = nextFileId + 1
                   /\ completed' = completed \cup {<<file_name, current_hash>>}
                   /\ calls' = Append(calls, Call("ingest", vector_store_id, file_name,
                                                  FileId(nextFileId), status))
            ELSE /\ calls' = Append(calls, Call("ingest", vector_store_id, file_name,
                                                None, status))
                 /\ UNCHANGED <<entries, nextFileId, completed>>
         /\ IF status # "raised" /\ BatchSucceeded(status)
              THEN /\ pc' = "list"
                   /\ UNCHANGED <<idx, logFailed>>
            ELSE /\ logFailed' = logFailed \cup {file_name}
                 /\ idx' = idx + 1
                 /\ pc' = AfterFailure(idx, Len(markdown_files))
    /\ UNCHANGED <<historyFile, mappingFile, collections, nextVsId, run, cfg, files, err,
                   upload_history, vector_store_mapping, vector_store_id, uploaded, updated,
                   skipped, logNew, logUpdated, logSkipped, atStart, prev, io>>
    /\ exit_code' = Returned(pc')
    /\ UNCHANGED scrapeVars
    /\ orderly' = (orderly /\ pc' # "fatal")

\* lines 201-223: list the store's files, take the first, record the artifact
ListAndRecord ==
    /\ pc = "list"
    /\ \E r \in (IF ListEntries(vector_store_id) # <<>>
                   THEN Outcomes({"ok"}, {"empty", "raised"})
                 ELSE Outcomes({"none"}, {"raised"})) :
         /\ faults' = Charge(r, {"empty", "raised"})
         /\ IF r = "raised"
              THEN /\ logFailed' = logFailed \cup {file_name}
                   /\ calls' = Append(calls, Call("list", vector_store_id, file_name, None, r))
                   /\ pc' = AfterFailure(idx, Len(markdown_files))
                   /\ UNCHANGED <<upload_history, vector_store_mapping>>
            ELSE LET data == IF r = "ok" THEN ListEntries(vector_store_id) ELSE <<>>
                     file_id == ResolveFileId(data, file_name)
                 IN  /\ upload_history' = Put(upload_history, file_name, current_hash)
                     /\ vector_store_mapping' =
                           NewMapping(vector_store_mapping, file_name, file_id,
                                      vector_store_id, run)
                     /\ calls' = Append(calls, Call("list", vector_store_id, file_name, file_id, r))
                     /\ pc' = LoopPc(idx + 1, Len(markdown_files))
                     /\ UNCHANGED logFailed
    /\ idx' = idx + 1
    /\ UNCHANGED <<historyFile, mappingFile, collections, entries, nextFileId, nextVsId,
                   run, cfg, files, err, vector_store_id, uploaded, updated, skipped,
                   logNew, logUpdated, logSkipped, atStart, completed, prev, io>>
    /\ exit_code' = Returned(pc')
    /\ UNCHANGED scrapeVars
    /\ orderly' = (orderly /\ pc' # "fatal")

\* save_json, line 81: open(path, "w") truncates the file
OpenForWrite ==
    /\ pc \in {"open_h", "open_m"}
    /\ \E ok \in Outcomes({TRUE}, {FALSE}) :
         /\ faults' = Charge(ok, {FALSE})
         /\ IF ok
              THEN /\ historyFile' = IF pc = "open_h" THEN TornFile ELSE historyFile
                   /\ mappingFile' = IF pc = "open_m" THEN TornFile ELSE mappingFile
                   /\ pc' = IF pc = "open_h" THEN "write_h" ELSE "write_m"
                   /\ io' = Append(io, FileEvent("save", IF pc = "open_h" THEN "h" ELSE "m",
                                                 idx - 1))
                   /\ UNCHANGED err
            ELSE /\ pc' = "fatal" /\ err' = "save_io"
                 /\ UNCHANGED <<historyFile, mappingFile, io>>
    /\ UNCHANGED <<collections, entries, nextFileId, nextVsId, run, cfg, files, idx,
                   upload_history, vector_store_mapping, vector_store_id, uploaded, updated,
                   skipped, logNew, logUpdated, logSkipped, logFailed, calls, atStart,
                   completed, prev>>
    /\ exit_code' = Returned(pc')
    /\ UNCHANGED scrapeVars
    /\ orderly' = (orderly /\ pc' # "fatal")

\* save_json, line 82: json.dump and close; after the second file, lines 228-246
DumpAndClose ==
    /\ pc \in {"write_h", "write_m"}
    /\ \E ok \in Outcomes({TRUE}, {FALSE}) :
         /\ faults' = Charge(ok, {FALSE})
         /\ IF ok
              THEN /\ historyFile' = IF pc = "write_h" THEN OkFile(upload_history) ELSE historyFile
                   /\ mappingFile' = IF pc = "write_m" THEN OkFile(vector_store_mapping) ELSE mappingFile
                   /\ pc' = IF pc = "write_h" THEN "open_m" ELSE "done"
                   /\ UNCHANGED err
            ELSE /\ pc' = "fatal" /\ err' = "save_io"
                 /\ UNCHANGED <<historyFile, mappingFile>>
    /\ UNCHANGED <<collections, entries, nextFileId, nextVsId, run, cfg, files, idx,
                   upload_history, vector_store_mapping, vector_store_id, uploaded, updated,
                   skipped, logNew, logUpdated, logSkipped, logFailed, calls, atStart,
                   completed, prev, io>>
    /\ exit_code' = Returned(pc')
    /\ UNCHANGED scrapeVars
    /\ orderly' = (orderly /\ pc' # "fatal")

\* The process is killed anywhere inside main(); disk and remote stay as they are
Crash ==
    /\ pc \in InRun
    /\ faults < MaxFaults
    /\ faults' = faults + 1
    /\ pc' = "crashed"
    /\ UNCHANGED <<historyFile, mappingFile, collections, entries, nextFileId, nextVsId,
                   run, cfg, files, err, idx, upload_history, vector_store_mapping,
                   vector_store_id, uploaded, updated, skipped, logNew, logUpdated,
                   logSkipped, logFailed, calls, atStart, completed, prev, io>>
    /\ exit_code' = Returned(pc')
    /\ UNCHANGED scrapeVars
    /\ orderly' = FALSE

Next ==
    \/ \E c \in Configs, fs \in Snapshots : StartRun(c, fs)
    \/ GetOrCreateVectorStore
    \/ ClassifyArtifact
    \/ DeleteOldFile
    \/ UploadAndPoll
    \/ ListAndRecord
    \/ OpenForWrite
    \/ DumpAndClose
    \/ Crash

Spec == Init /\ [][Next]_vars

----------------------------------------------------------------------------
(* The scraper: scrape_and_save_articles in src/main.py *)

\* titles as character sequences; the first two differ only in case and
\* punctuation
Titles == {<<"F", "a", "q">>, <<"f", "a", "q", "!">>, <<"F", "a", "q", " ", "-", "2">>}

Digit == <<"1", "2", "3", "4", "5", "6">>

\* str.lower()
Lower(c) == IF c = "F" THEN "f" ELSE c

IsSep(c) == c \in {" ", "-"}

\* the characters re.sub(r'[^\w\s-]', '', slug) keeps
IsKept(c) == c # "!"

RECURSIVE MapLower(_)
MapLower(t) == IF t = <<>> THEN <<>> ELSE <<Lower(Head(t))>> \o MapLower(Tail(t))

\* re.sub(r'[-\s]+', '-', slug)
RECURSIVE Collapse(_)
Collapse(t) ==
    IF t = <<>> THEN <<>>
    ELSE IF IsSep(Head(t))
      THEN IF Tail(t) # <<>> /\ IsSep(Head(Tail(t)))
             THEN Collapse(Tail(t))
           ELSE <<"-">> \o Collapse(Tail(t))
    ELSE <<Head(t)>> \o Collapse(Tail(t))

\* str.strip('-')
RECURSIVE Strip(_)
Strip(t) ==
    IF t = <<>> THEN <<>>
    ELSE IF Head(t) = "-" THEN Strip(Tail(t))
    ELSE IF t[Len(t)] = "-" THEN Strip(SubSeq(t, 1, Len(t) - 1))
    ELSE t

\* src/scrape_articles.py, lines 91-96
sanitize_filename(text) == Strip(Collapse(SelectSeq(MapLower(text), IsKept)))

\* src/main.py, lines 351-353
Slug(id, title) ==
    IF sanitize_filename(title) = <<>> THEN <<"article", "-", Digit[id]>>
    ELSE sanitize_filename(title)

\* src/main.py, lines 377-379: the first counter whose file does not exist
RECURSIVE FreeCounter(_, _, _)
FreeCounter(dir, slug, counter) ==
    IF (slug \o <<"-", Digit[counter]>>) \in DOMAIN dir
      THEN FreeCounter(dir, slug, counter + 1)
    ELSE counter

\* src/main.py, lines 371-381: the file an article is written to
OutputFile(dir, slug) ==
    IF slug \in DOMAIN dir THEN slug \o <<"-", Digit[FreeCounter(dir, slug, 1)]>>
    ELSE slug

\* fetch_articles_from_api: sort_by created_at, sort_order desc (ids grow with
\* creation time)
RECURSIVE ApiOrder(_, _)
ApiOrder(arts, id) ==
    IF id = 0 THEN <<>>
    ELSE (IF id \in DOMAIN arts THEN <<id>> ELSE <<>>) \o ApiOrder(arts, id - 1)

\* src/main.py, lines 338-391: the for loop over the fetched articles,
\* starting from the emptied directory
RECURSIVE SaveAll(_, _, _)
SaveAll(arts, order, dir) ==
    IF order = <<>> THEN dir
    ELSE LET id == Head(order)
             output_file == OutputFile(dir, Slug(id, arts[id]))
         IN  SaveAll(arts, Tail(order), Put(dir, output_file, id))

\* an article is published
AddArticle(title) ==
    /\ nextArticleId <= MaxArticles
    /\ articles' = Put(articles, nextArticleId, title)
    /\ nextArticleId' = nextArticleId + 1
    /\ UNCHANGED <<snapshot, previous>>
    /\ UNCHANGED engineVars

\* an article is removed from the help center
RemoveArticle(id) ==
    /\ id \in DOMAIN articles
    /\ articles' = [i \in DOMAIN articles \ {id} |-> articles[i]]
    /\ UNCHANGED <<nextArticleId, snapshot, previous>>
    /\ UNCHANGED engineVars

\* scrape_and_save_articles, src/main.py lines 316-393
ScrapeAndSave ==
    /\ previous' = snapshot
    /\ snapshot' = SaveAll(articles, ApiOrder(articles, MaxArticles), EmptyMap)
    /\ UNCHANGED <<articles, nextArticleId>>
    /\ UNCHANGED engineVars

ScrapeNext ==
    \/ \E title \in Titles : AddArticle(title)
    \/ \E id \in 1..MaxArticles : RemoveArticle(id)
    \/ ScrapeAndSave

ScrapeSpec == Init /\ [][ScrapeNext]_vars


----------------------------------------------------------------------------
(* Vocabulary of the properties *)

CallIdx == 1..Len(calls)
Mutations == {"create", "delete", "ingest"}

\* Artifacts whose upload raised or ended in a status other than completed, this run
IngestFailedNames ==
    {calls[i].name : i \in {j \in CallIdx : calls[j].op = "ingest" /\ calls[j].res # "completed"}}

\* Artifacts whose upload completed, this run
IngestedNames ==
    {calls[i].name : i \in {j \in CallIdx : calls[j].op = "ingest" /\ calls[j].res = "completed"}}

\* Artifacts whose fingerprinting raised, this run
HashFailedNames == IF err = "hash_io" THEN {file_name} ELSE {}

\* The mapping record a name had when the run loaded the stores
HadRecord(n) == n \in DOMAIN atStart.m.data /\ atStart.m.data[n].file_id # None

Position(n) == CHOOSE i \in 1..Len(markdown_files) : markdown_files[i] = n

Persisted == historyFile = OkFile(upload_history) /\ mappingFile = OkFile(vector_store_mapping)

RecordsUntouched(n) ==
    /\ Get(upload_history, n) = Get(atStart.h.data, n)
    /\ (n \in DOMAIN vector_store_mapping) = (n \in DOMAIN atStart.m.data)
    /\ n \in DOMAIN vector_store_mapping => vector_store_mapping[n] = atStart.m.data[n]

EntriesOf(vs, n) == {i \in 1..Len(entries) : entries[i].vs = vs /\ entries[i].name = n}

----------------------------------------------------------------------------
(* C1: every upload of an artifact logged UPDATE that had a mapping record  *)
(* with a file id at load time comes after a delete call for that old file  *)
(* id, and no upload of the artifact comes before that delete.              *)
C1_DeleteBeforeReplace ==
    \A i \in CallIdx :
        (calls[i].op = "ingest" /\ calls[i].name \in logUpdated /\ HadRecord(calls[i].name))
        => \E j \in 1..(i - 1) :
              /\ calls[j].op = "delete"
              /\ calls[j].name = calls[i].name
              /\ calls[j].fid = atStart.m.data[calls[i].name].file_id
              /\ \A k \in 1..j : ~(calls[k].op = "ingest" /\ calls[k].name = calls[i].name)

C1_Witness ==
    \E i \in CallIdx :
        /\ calls[i].op = "ingest" /\ calls[i].res = "completed"
        /\ calls[i].name \in logUpdated /\ HadRecord(calls[i].name)
        /\ \E j \in 1..(i - 1) : calls[j].op = "delete" /\ calls[j].res = "ok"

(* C2: a name carries fingerprint F, in memory or on disk, only if an       *)
(* upload of content hashing to F for that name has returned completed.     *)
C2_FingerprintImpliesIngest ==
    /\ \A n \in DOMAIN upload_history : <<n, upload_history[n]>> \in completed
    /\ \A n \in DOMAIN historyFile.data : <<n, historyFile.data[n]>> \in completed

C2_Witness ==
    /\ historyFile.st = "ok"
    /\ \E n \in DOMAIN historyFile.data : n \in IngestedNames

(* C3: a failed upload of X is logged, leaves X's fingerprint as loaded,    *)
(* never ends the run (the loop moves past X), and a run that then finishes *)
(* has classified every artifact and saved both stores with X's fingerprint *)
(* as it was before the run.                                                *)
C3_FaultIsolation ==
    \A x \in IngestFailedNames :
        /\ x \in logFailed
        /\ Get(upload_history, x) = Get(atStart.h.data, x)
        /\ pc = "fatal" => err \in {"hash_io", "save_io"}
        /\ pc \in {"loop", "delete", "ingest", "list"} => idx > Position(x)
        /\ pc = "done" =>
              /\ DOMAIN files = logNew \cup logUpdated \cup logSkipped
              /\ Persisted
              /\ Get(historyFile.data, x) = Get(atStart.h.data, x)

C3_Witness ==
    /\ pc = "done"
    /\ \E i, j \in CallIdx :
          /\ i < j
          /\ calls[i].op = "ingest" /\ calls[i].res # "completed"
          /\ calls[j].op = "ingest" /\ calls[j].res = "completed"
          /\ calls[j].name \in DOMAIN historyFile.data

(* C4: a run that repeats a completed run on the same artifacts, with no    *)
(* failure of the environment in either, issues no create, delete or upload *)
(* and ends with the stores as they were after the first run.               *)
C4_Idempotence ==
    (prev.repeat /\ faults = 0) =>
        /\ \A i \in CallIdx : calls[i].op \notin Mutations
        /\ pc = "done" => (historyFile = atStart.h /\ mappingFile = atStart.m)

(* C5: an artifact whose upload fails is counted neither as new nor as      *)
(* updated in the returned summary, and its records stay as loaded.         *)
C5_FailedExcludedFromCounts ==
    pc = "done" =>
        /\ uploaded = Cardinality(logNew \ IngestFailedNames)
        /\ updated = Cardinality(logUpdated \ IngestFailedNames)
        /\ \A x \in IngestFailedNames : RecordsUntouched(x)

(* C6: NEW, UPDATE and SKIP never overlap, the counters count them, and a   *)
(* finished run has put every artifact in exactly one of them, so the three *)
(* counters add up to the number of artifacts.                              *)
C6_DeltaPartition ==
    /\ logNew \cap logUpdated = {}
    /\ logNew \cap logSkipped = {}
    /\ logUpdated \cap logSkipped = {}
    /\ uploaded = Cardinality(logNew)
    /\ updated = Cardinality(logUpdated)
    /\ skipped = Cardinality(logSkipped)
    /\ pc = "done" =>
          /\ logNew \cup logUpdated \cup logSkipped = DOMAIN files
          /\ uploaded + updated + skipped = Cardinality(DOMAIN files)

C6_Witness ==
    /\ pc = "done"
    /\ logSkipped # {}
    /\ logUpdated # {}

(* C7: in production, a run whose vector store id was not supplied or not   *)
(* verified never gets past the resolution: it ends fatally on the strict   *)
(* check, with no create, delete or upload issued and both files as found.  *)
StrictUnverified ==
    /\ run > 0 /\ cfg.apiKey /\ cfg.environment = "production"
    /\ DOMAIN files # {} /\ err # "load_json"
    /\ ~\E i \in CallIdx : calls[i].op = "retrieve" /\ calls[i].res = "ok"

C8_CrashReprocessHarmless ==
    \A n \in prev.lost :
        (pc = "done" /\ n \notin logFailed) =>
            /\ n \in logNew \cup logUpdated
            /\ n \in IngestedNames
            /\ Cardinality(EntriesOf(vector_store_id, n)) = 1

(* C9: after a crash each store file holds either exactly what it held when *)
(* the run started or exactly the mapping the run was saving.               *)
C9_AtomicPersist ==
    pc = "crashed" =>
        /\ historyFile \in {atStart.h, OkFile(upload_history)}
        /\ mappingFile \in {atStart.m, OkFile(vector_store_mapping)}

(* C10: an artifact whose fingerprinting raised does not end the run: the   *)
(* loop goes on, and a finished run has saved both stores with that         *)
(* artifact's records as loaded.                                            *)
C10_FingerprintErrorRecoverable ==
    \A x \in HashFailedNames :
        /\ pc # "fatal"
        /\ RecordsUntouched(x)
        /\ pc = "done" => Persisted


(* C11: a delete of the old entry that fails does not end the artifact: the *)
(* upload of the new content is the next call for it, and once that upload  *)
(* and the listing have succeeded both stores hold the new fingerprint and  *)
(* the new record, as after a delete that succeeded.                        *)
Passed(n) ==
    \/ pc \in {"open_h", "write_h", "open_m", "write_m", "done"}
    \/ pc \in {"loop", "delete", "ingest", "list"} /\ idx > Position(n)

Recorded(n) ==
    \E i \in CallIdx : calls[i].op = "list" /\ calls[i].name = n /\ calls[i].res # "raised"

C11_BestEffortDelete ==
    \A i \in CallIdx :
        (calls[i].op = "delete" /\ calls[i].res # "ok") =>
            LET n == calls[i].name IN
            /\ pc # "crashed" =>
                  \/ pc = "ingest" /\ file_name = n /\ i = Len(calls)
                  \/ i < Len(calls) /\ calls[i + 1].op = "ingest" /\ calls[i + 1].name = n
            /\ Recorded(n) =>
                  /\ upload_history[n] = calculate_file_hash(files[n])
                  /\ vector_store_mapping[n].vector_store_id = vector_store_id
                  /\ vector_store_mapping[n].uploaded_at = run
            /\ (Recorded(n) /\ pc = "done") =>
                  /\ historyFile.data[n] = calculate_file_hash(files[n])
                  /\ mappingFile.data[n] = vector_store_mapping[n]

C11_Witness ==
    /\ pc = "done"
    /\ \E i \in CallIdx :
          /\ calls[i].op = "delete" /\ calls[i].res = "error"
          /\ Recorded(calls[i].name)


(* C12: an artifact whose loaded fingerprint equals its current one gets no *)
(* remote call, is logged SKIP only, and keeps both its records, in memory  *)
(* and in the files a finished run leaves.                                  *)
Unchanged(n) ==
    /\ n \in DOMAIN files
    /\ err # "load_json"
    /\ Get(atStart.h.data, n) = calculate_file_hash(files[n])

C12_UnchangedUntouched ==
    \A n \in Names :
        Unchanged(n) =>
            /\ \A i \in CallIdx : calls[i].name # n
            /\ n \notin logNew \cup logUpdated \cup logFailed
            /\ Passed(n) => n \in logSkipped
            /\ RecordsUntouched(n)
            /\ pc = "done" =>
                  /\ Get(historyFile.data, n) = Get(atStart.h.data, n)
                  /\ (n \in DOMAIN mappingFile.data) = (n \in DOMAIN atStart.m.data)
                  /\ n \in DOMAIN mappingFile.data => mappingFile.data[n] = atStart.m.data[n]

C12_Witness ==
    /\ pc = "done"
    /\ \E n \in logSkipped : Unchanged(n) /\ n \in DOMAIN atStart.m.data
    /\ IngestedNames # {}


(* C13: an artifact whose upload failed in the previous run and whose       *)
(* content is the same is never logged SKIP in this run: once the loop has  *)
(* passed it, it is logged NEW or UPDATE and an upload was issued for it;   *)
(* and no run issues two uploads for one artifact.                          *)
UploadsOf(n) == {i \in CallIdx : calls[i].op = "ingest" /\ calls[i].name = n}

C13_RetryNextRun ==
    /\ \A n \in Names : Cardinality(UploadsOf(n)) <= 1
    /\ \A x \in prev.failed :
          /\ x \notin logSkipped
          /\ Passed(x) => (x \in logNew \cup logUpdated /\ UploadsOf(x) # {})

C13_Witness ==
    \E x \in prev.failed :
        /\ pc = "done"
        /\ \E i \in UploadsOf(x) : calls[i].res = "completed"
        /\ x \in DOMAIN historyFile.data


(* C14: a run that got past the loading has read each file once, first,     *)
(* before any artifact; it saves nothing while artifacts remain, saves each *)
(* file at most once, after the last artifact, and has saved each exactly   *)
(* once when it returns from a non-empty artifact list.                     *)
LoadedRun == run > 0 /\ cfg.apiKey /\ err # "load_json"

SavesOf(f) == {i \in 1..Len(io) : io[i].op = "save" /\ io[i].file = f}

NewArtifact(n) == LoadedRun /\ n \in DOMAIN files /\ n \notin DOMAIN atStart.h.data

DeletesOf(n) == {i \in CallIdx : calls[i].op = "delete" /\ calls[i].name = n}

C15_NewIngestedWithoutDelete ==
    \A n \in Names : NewArtifact(n) =>
        /\ n \notin logUpdated \cup logSkipped
        /\ DeletesOf(n) = {}
        /\ ~(pc = "delete" /\ file_name = n)
        /\ Cardinality(UploadsOf(n)) <= 1
        /\ Passed(n) => (n \in logNew /\ Cardinality(UploadsOf(n)) = 1)

C15_Witness ==
    /\ pc = "done"
    /\ \E n \in Names : NewArtifact(n) /\ n \in IngestedNames
    /\ \E x \in Names : DeletesOf(x) # {}


(* C16: a run over an empty artifact set returns at once with new, updated  *)
(* and skipped all 0, has made no remote call (no retrieve, no create) and  *)
(* has left both files as they were.                                        *)
C16_EmptyInput ==
    (LoadedRun /\ DOMAIN files = {}) =>
        /\ pc = "done"
        /\ uploaded = 0 /\ updated = 0 /\ skipped = 0
        /\ logNew \cup logUpdated \cup logSkipped \cup logFailed = {}
        /\ calls = <<>>
        /\ vector_store_id = NoVs
        /\ SavesOf("h") \cup SavesOf("m") = {}
        /\ historyFile = atStart.h
        /\ mappingFile = atStart.m

C16_Witness ==
    /\ LoadedRun
    /\ DOMAIN files = {}
    /\ pc = "done"
    /\ DOMAIN historyFile.data # {}
    /\ DOMAIN mappingFile.data # {}


(* C17: the job returns 0 whenever the run completes, failed artifacts or   *)
(* not, and returns nonzero whenever the run ended in a fatal error: a      *)
(* missing key, a collection that could not be resolved or created, a       *)
(* store file that could not be loaded or saved.                            *)
C17_ExitCode ==
    /\ pc = "done" => exit_code = <<0>>
    /\ pc = "fatal" => (exit_code # <<>> /\ exit_code[1] # 0)
    /\ pc \notin {"done", "fatal"} => exit_code = <<>>

C17_Witness ==
    /\ pc = "done"
    /\ IngestFailedNames # {}
    /\ IngestedNames # {}
    /\ exit_code = <<0>>


(* C18: when a fault-free run over a non-empty snapshot has returned, every *)
(* name the loaded Index Mapping holds but the snapshot lacks has had its   *)
(* entry retired from the remote index.                                     *)
DeletedNames == DOMAIN atStart.m.data \ DOMAIN files

C18_DeletedRetired ==
    (LoadedRun /\ pc = "done" /\ DOMAIN files # {} /\ faults = 0) =>
        \A n \in DeletedNames :
            ~HasEntry(atStart.m.data[n].vector_store_id, atStart.m.data[n].file_id)


(* C19: within a run, an artifact's Fingerprint Store record and its Index  *)
(* Mapping record change together, exactly when its ingest was recorded;    *)
(* so if the loaded stores had equal key sets, the in-memory stores have    *)
(* equal key sets after every artifact.                                     *)
HistoryChanged(n) == Get(upload_history, n) # Get(atStart.h.data, n)

MappingChanged(n) ==
    IF n \in DOMAIN vector_store_mapping
      THEN n \notin DOMAIN atStart.m.data \/ vector_store_mapping[n] # atStart.m.data[n]
    ELSE n \in DOMAIN atStart.m.data

C19_StoresUpdatedTogether ==
    LoadedRun =>
        /\ \A n \in Names : /\ HistoryChanged(n) <=> MappingChanged(n)
                            /\ HistoryChanged(n) <=> Recorded(n)
        /\ DOMAIN atStart.h.data = DOMAIN atStart.m.data =>
              DOMAIN upload_history = DOMAIN vector_store_mapping

C19_Witness ==
    /\ pc = "open_h"
    /\ DOMAIN atStart.h.data = DOMAIN atStart.m.data
    /\ \E n \in Names : Recorded(n) /\ n \in DOMAIN atStart.h.data
    /\ \E x \in logFailed : ~HistoryChanged(x) /\ ~MappingChanged(x)


(* C20: once the re-ingest of a name that already had an Index Mapping      *)
(* record has been recorded, the name's one record holds exactly the entry  *)
(* id that listing resolved, the collection id of this run and this run's   *)
(* time; an id read from the listing differs from the previous entry id;    *)
(* and a run that returns has saved that record.                            *)
ListsOf(n) == {i \in CallIdx : calls[i].op = "list" /\ calls[i].name = n /\ calls[i].res # "raised"}

C20_MappingOverwritten ==
    LoadedRun =>
        \A n \in DOMAIN atStart.m.data : \A i \in ListsOf(n) :
            /\ n \in DOMAIN vector_store_mapping
            /\ vector_store_mapping[n] = [file_id |-> calls[i].fid, uploaded_at |-> run,
                                          vector_store_id |-> vector_store_id]
            /\ calls[i].res = "ok" => calls[i].fid # atStart.m.data[n].file_id
            /\ pc = "done" => (mappingFile.st = "ok" /\ n \in DOMAIN mappingFile.data
                               /\ mappingFile.data[n] = vector_store_mapping[n])

C20_Witness ==
    /\ pc = "done"
    /\ \E n \in DOMAIN atStart.m.data : \E i \in ListsOf(n) :
          /\ calls[i].res = "ok"
          /\ mappingFile.data[n].file_id # atStart.m.data[n].file_id
          /\ mappingFile.data[n].vector_store_id # atStart.m.data[n].vector_store_id


(* C21: whenever the listing that follows a completed ingest returns the    *)
(* collection's entries, the id it resolves, and the id the artifact's      *)
(* Index Mapping record then holds, is the id of the entry that very ingest *)
(* created.                                                                 *)
C21_EntryIdRecovered ==
    LoadedRun =>
        \A i \in CallIdx : (calls[i].op = "list" /\ calls[i].res = "ok") =>
            /\ i > 1
            /\ calls[i-1].op = "ingest"
            /\ calls[i-1].res = "completed"
            /\ calls[i-1].name = calls[i].name
            /\ calls[i].fid = calls[i-1].fid
            /\ calls[i].name \in DOMAIN vector_store_mapping
            /\ vector_store_mapping[calls[i].name].file_id = calls[i-1].fid

C21_Witness ==
    /\ pc = "done"
    /\ Len(ListEntries(vector_store_id)) >= 2
    /\ \A n \in Names : \E i \in ListsOf(n) : calls[i].res = "ok"
    /\ \E n \in Names : mappingFile.data[n].file_id = ListEntries(vector_store_id)[2].id


(* C22: an article that two successive scrapes both saved (its title is the *)
(* same in both) is saved under the same file name by both.                 *)
NameOf(dir, id) == CHOOSE n \in DOMAIN dir : dir[n] = id

Saved(dir) == {dir[n] : n \in DOMAIN dir}

C22_NamesStable ==
    \A id \in Saved(previous) \cap Saved(snapshot) :
        NameOf(previous, id) = NameOf(snapshot, id)


(* C23: when a run has returned, no Index Mapping record holds the id of an *)
(* entry this run has successfully deleted.                                 *)
DeletedIds == {calls[i].fid : i \in {j \in CallIdx : calls[j].op = "delete" /\ calls[j].res = "ok"}}

C23_NoDanglingRecord ==
    (LoadedRun /\ pc = "done") =>
        \A n \in DOMAIN vector_store_mapping :
            vector_store_mapping[n].file_id \notin DeletedIds


(* C24: as long as every run has returned (none crashed, none raised) and  *)
(* no delete call has failed, a run that has returned leaves at most one    *)
(* entry per artifact name in every collection.                             *)
EntriesIn(vs, n) == {i \in 1..Len(entries) : entries[i].vs = vs /\ entries[i].name = n}

C24_OneEntryPerName ==
    (LoadedRun /\ pc = "done" /\ orderly) =>
        \A vs \in collections : \A n \in Names : Cardinality(EntriesIn(vs, n)) <= 1


(* C25: when a run without any failure has returned, every artifact of the  *)
(* snapshot whose Fingerprint Store record equals its current fingerprint   *)
(* has an entry in the collection resolved for that run.                    *)
C25_ResolvedHoldsRecorded ==
    (LoadedRun /\ pc = "done" /\ DOMAIN files # {} /\ logFailed = {} /\ faults = 0) =>
        \A n \in DOMAIN files :
            Get(upload_history, n) = calculate_file_hash(files[n]) =>
                EntriesIn(vector_store_id, n) # {}


(* C26: every delete call of a fault-free history is issued against the     *)
(* collection that the old entry's Index Mapping record names as its owner. *)
C26_DeleteTargetsOwner ==
    (LoadedRun /\ faults = 0) =>
        \A i \in CallIdx : calls[i].op = "delete" =>
            /\ calls[i].name \in DOMAIN atStart.m.data
            /\ calls[i].fid = atStart.m.data[calls[i].name].file_id
            /\ calls[i].vs = atStart.m.data[calls[i].name].vector_store_id


(* C27: whenever no run is in progress because the last one has returned   *)
(* or crashed, every name with a readable fingerprint record on disk also   *)
(* has an Index Mapping record on disk.                                     *)
C27_DurableStoresConsistent ==
    (pc \in {"idle", "done", "crashed"} /\ historyFile.st = "ok") =>
        \A n \in DOMAIN historyFile.data :
            mappingFile.st = "ok" /\ n \in DOMAIN mappingFile.data

====
